---------------------------- MODULE Spec2Model ----------------------------
(***************************************************************************)
(* A model of the ID3v2 tag codec and file-rewrite engine of go-id3        *)
(* (src/id3.go).  Bytes are naturals 0..255, byte strings are sequences of *)
(* bytes, the file on disk is a byte string.  Save is modelled step by     *)
(* step, one action per system call or library call that can fail.         *)
(***************************************************************************)
EXTENDS Integers, Sequences, FiniteSets, TLC

(***************************************************************************)
(* Bounds of the model.                                                    *)
(***************************************************************************)
\* how many Save calls one behaviour makes
MaxSaves == 2
\* how many frame-store mutations one behaviour makes
MaxOps == 1

(***************************************************************************)
(* Program constants.                                                      *)
(***************************************************************************)
frameLength == 10
tagHeaderSize == 10
id3byte == <<73, 68, 51>>
versionByte == <<4, 0>>
nul == <<0>>
utf8byte == <<3>>
iso88591 == 0
utf16bom == 1
utf16be == 2
utf8 == 3

(***************************************************************************)
(* Integer helpers.  Go's int is 64 bits wide; every value the model       *)
(* computes stays below 2^31, so no operation here wraps.                  *)
(***************************************************************************)
RECURSIVE Pow2(_)
Pow2(n) == IF n = 0 THEN 1 ELSE 2 * Pow2(n - 1)

RECURSIVE BitAnd(_, _)
BitAnd(a, b) ==
    IF a = 0 \/ b = 0 THEN 0
    ELSE (a % 2) * (b % 2) + 2 * BitAnd(a \div 2, b \div 2)

RECURSIVE BitOr(_, _)
BitOr(a, b) ==
    IF a = 0 THEN b
    ELSE IF b = 0 THEN a
    ELSE (IF a % 2 = 1 \/ b % 2 = 1 THEN 1 ELSE 0) + 2 * BitOr(a \div 2, b \div 2)

Shl(a, n) == a * Pow2(n)
Shr(a, n) == a \div Pow2(n)

Min(a, b) == IF a < b THEN a ELSE b
Max(a, b) == IF a > b THEN a ELSE b

\* make([]byte, n); empty when n <= 0
Zeros(n) == [i \in 1..n |-> 0]

\* s[from..] with a 0-based offset, as a Go slice expression s[from:]
Drop(s, from) == SubSeq(s, from + 1, Len(s))
\* s[:n]
Take(s, n) == SubSeq(s, 1, Min(n, Len(s)))

(***************************************************************************)
(* Synchsafe integer codec.                                                *)
(***************************************************************************)
desynchsafeInt(b) ==
    BitOr(BitOr(BitOr(Shl(b[1], 21), Shl(b[2], 14)), Shl(b[3], 7)), b[4])

synchsafeInt(i) ==
    BitOr(BitOr(BitOr(BitAnd(i, 127),
                      Shl(BitAnd(i, 16256), 1)),
                Shl(BitAnd(i, 2080768), 2)),
          Shl(BitAnd(i, 16646144), 3))

\* byte(i & 0xff000000 >> 24) etc.: & and >> have the same precedence in Go
\* and associate to the left, so each byte is (i & mask) >> shift.
intToBytes(i) ==
    << Shr(i, 24) % 256, Shr(i, 16) % 256, Shr(i, 8) % 256, i % 256 >>

generateHeader(size) ==
    id3byte \o versionByte \o nul \o intToBytes(synchsafeInt(size))


(***************************************************************************)
(* Frames.  A frame is a record; the fields a, b, c hold the payload:       *)
(*   Text        a = Text                                                  *)
(*   UserText    a = Description, b = Text                                 *)
(*   Comment     a = Language, b = Description, c = Text                   *)
(*   Unsupported a = Data                                                  *)
(* Strings are the byte strings of their UTF-8 encoding, so Len is Go's    *)
(* len().                                                                  *)
(***************************************************************************)
TDTG == <<84, 68, 84, 71>>
TIT2 == <<84, 73, 84, 50>>
TRDA == <<84, 82, 68, 65>>
TXXX == <<84, 88, 88, 88>>
COMM == <<67, 79, 77, 77>>
XUNK == <<88, 85, 78, 75>>

Frame(kind, id, flags, a, b, c) ==
    [kind |-> kind, id |-> id, flags |-> flags, a |-> a, b |-> b, c |-> c]

TextInformationFrame(id, flags, text) == Frame("Text", id, flags, text, <<>>, <<>>)
UserTextInformationFrame(flags, desc, text) == Frame("UserText", TXXX, flags, desc, text, <<>>)
CommentFrame(flags, lang, desc, text) == Frame("Comment", COMM, flags, lang, desc, text)
UnsupportedFrame(id, flags, data) == Frame("Unsupported", id, flags, data, <<>>, <<>>)

\* FrameHeader.serialize: id, synchsafe size, the low two bytes of the flags
serialize(f, size) ==
    Take(f.id \o Zeros(4), 4) \o intToBytes(synchsafeInt(size))
        \o Drop(intToBytes(f.flags), 2)

\* frame.size(), by frame type
size(f) ==
    CASE f.kind = "Text" ->
            IF f.id = TRDA THEN 0 ELSE frameLength + Len(f.a) + 1
      [] f.kind = "UserText" -> frameLength + Len(f.a) + Len(f.b) + 2
      [] f.kind = "Comment" -> frameLength + Len(f.b) + Len(f.c) + 5
      [] f.kind = "Unsupported" -> 0

\* the bytes frame.WriteTo / frame.Encode writes when no write fails
WriteTo(f) ==
    CASE f.kind = "Text" ->
            IF f.id = TRDA THEN <<>>
            ELSE serialize(f, size(f) - frameLength) \o utf8byte \o f.a
      [] f.kind = "UserText" ->
            serialize(f, size(f) - frameLength) \o utf8byte \o f.a \o nul \o f.b
      [] f.kind = "Comment" ->
            serialize(f, size(f) - frameLength) \o utf8byte \o f.a \o f.b
                \o nul \o f.c
      [] f.kind = "Unsupported" -> <<>>

(***************************************************************************)
(* The frame store: a function from frame identifiers to sequences of      *)
(* frames (Go's map[FrameType][]Frame).  A Go map is iterated in an        *)
(* unspecified order, so the operations that range over it take the order  *)
(* of the buckets as an argument.                                          *)
(***************************************************************************)
NewFramesMap == [k \in {} |-> <<>>]

Put(fm, id, bucket) ==
    [k \in DOMAIN fm \cup {id} |-> IF k = id THEN bucket ELSE fm[k]]

\* all orders in which a range loop can visit the keys of fm
RECURSIVE Orders(_)
Orders(S) ==
    IF S = {} THEN {<<>>}
    ELSE UNION {{<<k>> \o o : o \in Orders(S \ {k})} : k \in S}

RECURSIVE SumSizes(_)
SumSizes(bucket) ==
    IF bucket = <<>> THEN 0 ELSE size(Head(bucket)) + SumSizes(Tail(bucket))

RECURSIVE FlattenIn(_, _)
FlattenIn(fm, order) ==
    IF order = <<>> THEN <<>> ELSE fm[Head(order)] \o FlattenIn(fm, Tail(order))

\* FramesMap.size(): a sum, the same in every iteration order
RECURSIVE FramesMapSizeIn(_, _)
FramesMapSizeIn(fm, order) ==
    IF order = <<>> THEN 0
    ELSE SumSizes(fm[Head(order)]) + FramesMapSizeIn(fm, Tail(order))

FramesMapSize(fm) == FramesMapSizeIn(fm, CHOOSE o \in Orders(DOMAIN fm) : TRUE)

\* the frames FramesMap.Encode visits, in the order it visits them
FramesIn(fm, order) == FlattenIn(fm, order)

\* the bytes FramesMap.Encode has written when the write of frame number
\* failAt fails (0: no write fails); a frame whose write fails writes nothing
RECURSIVE EncodeFrames(_, _)
EncodeFrames(fs, failAt) ==
    IF fs = <<>> \/ failAt = 1 THEN <<>>
    ELSE WriteTo(Head(fs)) \o EncodeFrames(Tail(fs), IF failAt = 0 THEN 0 ELSE failAt - 1)

(***************************************************************************)
(* Frame-store operations.                                                 *)
(***************************************************************************)
\* frameNameToUserFrame: the description in a name "TXXX:description"
\* (the sixth byte on of a name of six bytes or more that starts with TXXX)
frameNameToUserFrame(name) ==
    IF Len(name) < 6 THEN [frameName |-> <<>>, ok |-> FALSE]
    ELSE IF SubSeq(name, 1, 4) # TXXX THEN [frameName |-> <<>>, ok |-> FALSE]
    ELSE [frameName |-> Drop(name, 5), ok |-> TRUE]

\* the index at which the range loop of setUserTextFrame stops: the first
\* frame with the description, or the last frame when none has it
FoundAt(frames, name) ==
    IF \E i \in 1..Len(frames) : frames[i].a = name
    THEN CHOOSE i \in 1..Len(frames) :
            /\ frames[i].a = name
            /\ \A j \in 1..(i - 1) : frames[j].a # name
    ELSE Len(frames)

\* (*Tag).setUserTextFrame.  ok is set by the map lookup and stays set when
\* no description matches.  A TXXX bucket that exists is never empty in a
\* store built by the setters, so frames[i] is always in range.
setUserTextFrame(fm, name, value) ==
    LET frame == UserTextInformationFrame(0, name, value)
        ok    == TXXX \in DOMAIN fm
    IN  IF ok
        THEN Put(fm, TXXX, [fm[TXXX] EXCEPT ![FoundAt(fm[TXXX], name)] = frame])
        ELSE Put(fm, TXXX, <<frame>>)

\* (*Tag).SetTextFrame
SetTextFrame(fm, name, value) ==
    IF frameNameToUserFrame(name).ok
    THEN setUserTextFrame(fm, frameNameToUserFrame(name).frameName, value)
    ELSE IF name \in DOMAIN fm
    THEN Put(fm, name, [fm[name] EXCEPT ![1] = TextInformationFrame(name, 0, value)])
    ELSE Put(fm, name, <<TextInformationFrame(name, 0, value)>>)

\* (*Tag).getUserTextFrame
getUserTextFrame(fm, name) ==
    IF TXXX \notin DOMAIN fm THEN <<>>
    ELSE IF \E i \in 1..Len(fm[TXXX]) : fm[TXXX][i].a = name
    THEN fm[TXXX][FoundAt(fm[TXXX], name)].b
    ELSE <<>>

\* (*Tag).SetComments
SetComments(fm, comments) ==
    Put(fm, COMM,
        [i \in 1..Len(comments) |->
            CommentFrame(0, comments[i].Language, comments[i].Description,
                         comments[i].Text)])

\* (*Tag).Clear
Clear(fm) == NewFramesMap

(***************************************************************************)
(* Text encodings.                                                         *)
(***************************************************************************)
RECURSIVE iso88591ToUTF8(_)
iso88591ToUTF8(input) ==
    IF input = <<>> THEN <<>>
    ELSE LET b == Head(input) IN
         (IF b <= 128 THEN <<b>>
          ELSE IF b >= 192 THEN <<195, b - 64>>
          ELSE <<194, b>>) \o iso88591ToUTF8(Tail(input))

\* utf8ToISO88591 from the input that is left, with the output so far;
\* "panic" where the code reads input[j+1] past the end of the input.
\* res[i] is a byte, so the sum input[j+1] + 64 wraps at 256.
RECURSIVE utf8ToISO88591From(_, _)
utf8ToISO88591From(input, res) ==
    IF input = <<>> THEN res
    ELSE IF Head(input) <= 128
    THEN utf8ToISO88591From(Tail(input), Append(res, Head(input)))
    ELSE IF Len(input) < 2 THEN "panic"
    ELSE utf8ToISO88591From(Tail(Tail(input)),
             Append(res, IF Head(input) = 195 THEN (input[2] + 64) % 256
                         ELSE input[2]))

utf8ToISO88591(input) == utf8ToISO88591From(input, <<>>)

\* the UTF-8 encoding of one rune, as string(rune) produces it
EncodeRune(r) ==
    IF r < 128 THEN <<r>>
    ELSE IF r < 2048 THEN <<192 + Shr(r, 6), 128 + (r % 64)>>
    ELSE IF r < 65536
         THEN <<224 + Shr(r, 12), 128 + (Shr(r, 6) % 64), 128 + (r % 64)>>
    ELSE <<240 + Shr(r, 18), 128 + (Shr(r, 12) % 64), 128 + (Shr(r, 6) % 64),
           128 + (r % 64)>>

\* unicode/utf16.Decode followed by string(): surrogate pairs combine, a lone
\* surrogate becomes U+FFFD
RECURSIVE DecodeUnits(_)
DecodeUnits(u) ==
    IF u = <<>> THEN <<>>
    ELSE LET r == Head(u) IN
         IF r >= 55296 /\ r < 56320 /\ Len(u) > 1 /\ u[2] >= 56320 /\ u[2] < 57344
         THEN EncodeRune((r - 55296) * 1024 + (u[2] - 56320) + 65536)
                  \o DecodeUnits(Tail(Tail(u)))
         ELSE IF r >= 55296 /\ r < 57344
         THEN EncodeRune(65533) \o DecodeUnits(Tail(u))
         ELSE EncodeRune(r) \o DecodeUnits(Tail(u))

\* utf16ToUTF8; "panic" where the code indexes past the end of its input
utf16ToUTF8(input) ==
    IF Len(input) < 2 THEN "panic"
    ELSE LET le   == input[1] = 255 /\ input[2] = 254
             bom  == le \/ (input[1] = 254 /\ input[2] = 255)
             body == IF bom THEN Drop(input, 2) ELSE input
         IN  IF Len(body) % 2 = 1 THEN "panic"
             ELSE DecodeUnits([i \in 1..(Len(body) \div 2) |->
                     IF le THEN body[2 * i - 1] + 256 * body[2 * i]
                     ELSE 256 * body[2 * i - 1] + body[2 * i]])

\* reencode (Encoding.toUTF8): the UTF-8 form of b, or "panic"
reencode(b, encoding) ==
    CASE encoding = utf16bom \/ encoding = utf16be -> utf16ToUTF8(b)
      [] encoding = utf8 -> b
      [] encoding = iso88591 -> iso88591ToUTF8(b)
      [] OTHER -> "panic"

\* bytes.SplitN(s, nul, n) for n >= 1: the pieces of s between the first
\* n - 1 zero bytes, the last piece unsplit
RECURSIVE SplitN(_, _)
SplitN(s, n) ==
    IF n = 1 \/ ~(\E i \in 1..Len(s) : s[i] = 0) THEN <<s>>
    ELSE LET i == CHOOSE k \in 1..Len(s) :
                      s[k] = 0 /\ \A j \in 1..(k - 1) : s[j] # 0
         IN  <<SubSeq(s, 1, i - 1)>> \o SplitN(Drop(s, i), n - 1)

\* the loop of splitNullN from the 0-based index i on, with the matches so
\* far; prev is never assigned in the loop, so every match is data[0:i];
\* "panic" where data[i+1] is read past the end of data
RECURSIVE splitNullLoop(_, _, _, _)
splitNullLoop(data, i, matches, n) ==
    IF i >= Len(data) THEN matches
    ELSE IF data[i + 1] # 0 THEN splitNullLoop(data, i + 2, matches, n)
    ELSE IF i + 1 >= Len(data) THEN "panic"
    ELSE IF data[i + 2] # 0 THEN splitNullLoop(data, i + 2, matches, n)
    ELSE LET m == Append(matches, SubSeq(data, 1, i)) IN
         IF Len(m) = n - 1 THEN m ELSE splitNullLoop(data, i + 2, m, n)

\* splitNullN; after the loop data[prev:], with prev = 0, is appended
splitNullN(data, encoding, n) ==
    IF encoding = utf8 \/ encoding = iso88591 THEN SplitN(data, n)
    ELSE LET matches == splitNullLoop(data, 0, <<>>, n) IN
         IF matches = "panic" THEN "panic"
         ELSE IF 0 < Len(data) - 1 THEN Append(matches, data)
         ELSE matches

(***************************************************************************)
(* Header codec.  A reader is the byte string it has left to deliver.      *)
(***************************************************************************)
NoHeader == [Version |-> 0, Flags |-> 0, Size |-> 0]

Unsynchronisation(flags) == BitAnd(flags, 128) > 0

\* ExtendedHeader testing the bit of the experimental flag
ExtendedHeaderBit5(flags) == BitAnd(flags, 32) > 0
ExtendedHeader(flags) == BitAnd(flags, 64) > 0

\* readHeader: binary.Read of the 10-byte struct, then magic and version
readHeader(r) ==
    IF Len(r) = 0 THEN [header |-> NoHeader, err |-> "EOF"]
    ELSE IF Len(r) < tagHeaderSize THEN [header |-> NoHeader, err |-> "ErrUnexpectedEOF"]
    ELSE IF SubSeq(r, 1, 3) # <<73, 68, 51>>
         THEN [header |-> NoHeader, err |-> "notATagHeader"]
    ELSE IF r[4] > 4 \/ r[4] < 3
         THEN [header |-> NoHeader, err |-> "UnsupportedVersion"]
    ELSE [header |-> [Version |-> BitOr(Shl(r[4], 8), r[5]),
                      Flags   |-> r[6],
                      Size    |-> desynchsafeInt(SubSeq(r, 7, 10))],
          err |-> "nil"]

(***************************************************************************)
(* Frame codec: reading.                                                   *)
(***************************************************************************)
NoFrame == Frame("None", <<>>, 0, <<>>, <<>>, <<>>)

AllowedIDByte(b) == (b >= 48 /\ b <= 57) \/ (b >= 65 /\ b <= 90)

Compressed(flags) == BitAnd(flags, 128) > 0
Encrypted(flags) == BitAnd(flags, 64) > 0
Grouped(flags) == BitAnd(flags, 32) > 0

ReadResult(f, e, rest) == [frame |-> f, err |-> e, rest |-> rest]

\* the T*** branch of readFrame: one encoding byte, then frameSize-1 bytes
readTextFrame(id, flags, frameSize, r) ==
    IF frameSize - 1 < 0 THEN ReadResult(NoFrame, "panic", r)
    ELSE IF Len(r) = 0 THEN ReadResult(NoFrame, "EOF", r)
    ELSE LET encoding == r[1]
             rest     == Tail(r)
             need     == frameSize - 1
         IN  IF need > 0 /\ Len(rest) = 0 THEN ReadResult(NoFrame, "EOF", rest)
             ELSE IF Len(rest) < need THEN ReadResult(NoFrame, "ErrUnexpectedEOF", <<>>)
             ELSE LET text == reencode(Take(rest, need), encoding) IN
                  IF text = "panic" THEN ReadResult(NoFrame, "panic", Drop(rest, need))
                  ELSE ReadResult(TextInformationFrame(id, flags, text), "nil",
                                  Drop(rest, need))

\* the default branch of readFrame: one Read of frameSize bytes
readUnsupportedFrame(id, flags, frameSize, r) ==
    IF Len(r) = 0
    THEN ReadResult(UnsupportedFrame(id, flags, <<>>), "EOF", r)
    ELSE ReadResult(UnsupportedFrame(id, flags, Take(r, frameSize)), "nil",
                    Drop(r, Min(frameSize, Len(r))))

\* readFrame on the reader r
readFrame(r) ==
    IF Len(r) < frameLength THEN ReadResult(NoFrame, "EOF", <<>>)
    ELSE LET id        == SubSeq(r, 1, 4)
             frameSize == desynchsafeInt(SubSeq(r, 5, 8))
             flags     == BitOr(Shl(r[9], 8), r[10])
             rest      == Drop(r, frameLength)
         IN  IF id = <<0, 0, 0, 0>> THEN ReadResult(NoFrame, "EOF", rest)
             ELSE IF \E i \in 1..4 : ~AllowedIDByte(id[i])
                  THEN ReadResult(NoFrame, "NotAFrameHeader", rest)
             ELSE IF Compressed(flags) \/ Encrypted(flags) \/ Grouped(flags)
                  THEN ReadResult(NoFrame, "panic", rest)
             ELSE IF id[1] = 84 /\ id # TXXX
                  THEN readTextFrame(id, flags, frameSize, rest)
             ELSE readUnsupportedFrame(id, flags, frameSize, rest)

\* parseFrames with the frames read so far dropped when a frame is in error
RECURSIVE parseFramesDropping(_, _)
parseFramesDropping(r, fm) ==
    LET res == readFrame(r) IN
    IF res.err = "EOF" THEN [frames |-> fm, err |-> "nil", rest |-> res.rest]
    ELSE IF res.err # "nil"
    THEN [frames |-> NewFramesMap, err |-> res.err, rest |-> res.rest]
    ELSE LET id == res.frame.id
             bucket == IF id \in DOMAIN fm THEN fm[id] ELSE <<>>
         IN  parseFramesDropping(res.rest, Put(fm, id, Append(bucket, res.frame)))

\* the frame loop of Parse: append every frame read to its bucket until
\* readFrame reports an error; io.EOF ends the loop without an error
RECURSIVE parseFrames(_, _)
parseFrames(r, fm) ==
    LET res == readFrame(r) IN
    IF res.err = "EOF" THEN [frames |-> fm, err |-> "nil", rest |-> res.rest]
    ELSE IF res.err # "nil" THEN [frames |-> fm, err |-> res.err, rest |-> res.rest]
    ELSE LET id == res.frame.id
             bucket == IF id \in DOMAIN fm THEN fm[id] ELSE <<>>
         IN  parseFrames(res.rest, Put(fm, id, Append(bucket, res.frame)))

\* Parse: the tag (nil when the code returns a nil tag), the error, and the
\* number of bytes read from r
Parse(r) ==
    LET h == readHeader(r) IN
    IF h.err # "nil"
    THEN [nilTag |-> FALSE, header |-> NoHeader, frames |-> NewFramesMap, err |-> h.err,
          read |-> Min(Len(r), tagHeaderSize)]
    ELSE IF ExtendedHeader(h.header.Flags)
    THEN [nilTag |-> TRUE, header |-> NoHeader, frames |-> NewFramesMap,
          err |-> "ErrNoExtendedHeader", read |-> tagHeaderSize]
    ELSE IF Unsynchronisation(h.header.Flags)
    THEN [nilTag |-> TRUE, header |-> NoHeader, frames |-> NewFramesMap,
          err |-> "ErrNoUnsynchronizedTag", read |-> tagHeaderSize]
    ELSE LET tagReader == Take(Drop(r, tagHeaderSize), h.header.Size + tagHeaderSize)
             p == parseFrames(tagReader, NewFramesMap)
         IN  [nilTag |-> FALSE, header |-> h.header, frames |-> p.frames, err |-> p.err,
              read |-> tagHeaderSize + Len(tagReader) - Len(p.rest)]

(***************************************************************************)
(* The files the model opens.  Each is a complete file on disk: a tag      *)
(* (header, frames, padding) followed by audio bytes, or audio bytes       *)
(* alone.  The tags are version 2.4, so Parse never calls upgrade.         *)
(***************************************************************************)
TimeA == <<50, 48, 50, 54, 45, 49, 49, 45, 48, 53, 84, 49, 48, 58, 48, 48, 58, 48, 48>>
TimeB == <<50, 48, 50, 54, 45, 49, 49, 45, 48, 53, 84, 49, 48, 58, 48, 48, 58, 48, 49>>
\* time.Now().UTC().Format(TimeFormat) in the n-th Save: 19 bytes, whatever the time
Now(n) == IF n % 2 = 0 THEN TimeA ELSE TimeB

Audio3 == <<201, 202, 203>>
Audio12 == <<101, 102, 103, 104, 105, 106, 107, 108, 109, 110, 111, 112>>

\* a version 2.4 tag with the given size field and body, then the audio
TaggedFile(sizeField, body, audio) ==
    <<73, 68, 51, 4, 0, 0>> \o intToBytes(synchsafeInt(sizeField)) \o body \o audio

\* a version 2.4 tag whose header carries the given flags byte
FlaggedFile(flags, sizeField, body, audio) ==
    <<73, 68, 51, 4, 0, flags>> \o intToBytes(synchsafeInt(sizeField)) \o body \o audio

\* the frames TIT2 "A" and TIT2 "B" as they stand in a file
FrameTIT2A == <<84, 73, 84, 50, 0, 0, 0, 2, 0, 0, 3, 65>>
FrameTIT2B == <<84, 73, 84, 50, 0, 0, 0, 2, 0, 0, 3, 66>>
\* a frame header whose identifier "TiT2" has a lower-case letter
FrameBadID == <<84, 105, 84, 50, 0, 0, 0, 2, 0, 0, 3, 67>>
\* TIT2 "C" with the given low byte of the frame flags
FrameFlagged(lo) == <<84, 73, 84, 50, 0, 0, 0, 2, 0, lo, 3, 67>>

\* files whose Open fails: the tag cannot be parsed
UnparsableFiles ==
    { FlaggedFile(64, 12, FrameTIT2A, Audio3),
      FlaggedFile(128, 12, FrameTIT2A, Audio3),
      FlaggedFile(192, 12, FrameTIT2A, Audio3),
      TaggedFile(24, FrameBadID \o FrameTIT2A, Audio3),
      TaggedFile(36, FrameTIT2A \o FrameTIT2B \o FrameBadID, Audio3),
      TaggedFile(42, FrameTIT2A \o <<88, 85, 78, 75, 0, 0, 0, 4, 0, 0, 9, 8, 7, 6>>
                        \o FrameBadID \o Zeros(4), Audio3),
      TaggedFile(24, FrameTIT2A \o FrameFlagged(128), Audio3),
      TaggedFile(24, FrameTIT2A \o FrameFlagged(64), Audio3),
      TaggedFile(24, FrameTIT2A \o FrameFlagged(32), Audio3),
      \* a tag its one frame fills, then audio that is no frame header
      TaggedFile(12, FrameTIT2A, Audio12) }

InitialFiles ==
    UnparsableFiles \cup
    { Audio12,
      Take(Audio12, 5),
      <<>>,
      \* TIT2 "A", 48 bytes of padding
      TaggedFile(60, <<84, 73, 84, 50, 0, 0, 0, 2, 0, 0, 3, 65>> \o Zeros(48), Audio3),
      \* a TDTG frame that fills the tag, no padding
      TaggedFile(30, <<84, 68, 84, 71, 0, 0, 0, 20, 0, 0, 3>> \o TimeA, Audio3),
      \* an unknown frame XUNK with 4 bytes of data, no padding
      TaggedFile(14, <<88, 85, 78, 75, 0, 0, 0, 4, 0, 0, 9, 8, 7, 6>>, Audio3) }

Paddings == {0, 2}
Thresholds(f) == {Len(f), Len(f) + 1}

Texts == {<<65, 66, 67>>}
Comments ==
    { <<[Language |-> l, Description |-> <<>>, Text |-> <<66>>]>> :
        l \in {<<101, 110, 103>>, <<101, 110, 103, 108>>} }

(***************************************************************************)
(* State.                                                                  *)
(***************************************************************************)
VARIABLES
    file,               \* the content of the file f.f is open on
    pos,                \* the file offset of f.f
    pc,                 \* "closed", "openfailed", "idle", a step of Save, "done"
    openErr,            \* the error Parse returned to Open ("panic": it panicked)
    tagNil,             \* Parse returned a nil *Tag to Open
    tagFrames,          \* the frame map of the tag Parse built, as Parse left it
    openFile,           \* history: the file content when Open parsed it
    fileSize,           \* File.fileSize, cached by NewFile
    audioOff, audioN,   \* the section audioReader reads: offset and length
    Header,             \* Tag.Header
    Frames,             \* Tag.Frames
    Padding,            \* the package variable Padding
    InMemoryThreshold,  \* the package variable InMemoryThreshold
    framesSize,         \* Save's local framesSize
    path,               \* "none", "InPlace" or "Rebuild"
    bufKind,            \* saveNew's buf: "none", "memory" or "tempfile"
    buf,                \* the content of buf
    tempExists,         \* the temporary file exists in the file system
    err,                \* the error the last Save returned ("running" before)
    preFile,            \* history: the file content when Save was called
    preHeader,          \* history: Tag.Header when Save was called
    emptyAtCall,        \* history: the frame store was empty when Save was called
    staged,             \* history: SaveTo has returned without error
    tempCreated,        \* history: this Save created a temporary file
    failedAt,           \* history: the step at which this Save failed, or "none"
    anyFailed,          \* history: some Save of this file has returned an error
    nSaves, nOps,       \* history: calls made so far
    sx, sb, sy, spc,    \* a codec exercised alone: input, bytes, output, step
    lastOp,             \* history: the last operation on the frame store
    preFrames           \* history: the frame store before that operation

fileVars == <<file, pos, pc, openErr, tagNil, tagFrames, openFile, fileSize, audioOff, audioN, Header, Frames,
              Padding, InMemoryThreshold, framesSize, path, bufKind, buf,
              tempExists, err, preFile, preHeader, emptyAtCall, staged,
              tempCreated, failedAt, anyFailed, nSaves, nOps>>
codecVars == <<sx, sb, sy, spc, lastOp, preFrames>>
vars == <<fileVars, codecVars>>

HasTag(h) == h.Version > 0

\* (*os.File).Write / io.Copy at offset p: overwrite, extending the file
WriteAt(f, p, data) ==
    SubSeq(f, 1, Min(p, Len(f))) \o Zeros(p - Len(f)) \o data
        \o SubSeq(f, p + Len(data) + 1, Len(f))

\* what audioReader delivers from offset 0 of its section: the section
\* [off, off+n) of the file as it is now, cut at the end of the file
ReadSection(f, off, n) == SubSeq(f, off + 1, Min(off + n, Len(f)))

\* the file has not been opened yet
Closed ==
    /\ pos = 0
    /\ pc = "closed"
    /\ openErr = "nil"
    /\ tagNil = FALSE /\ tagFrames = NewFramesMap /\ openFile = <<>>
    /\ fileSize = 0 /\ audioOff = 0 /\ audioN = 0
    /\ Header = NoHeader
    /\ Frames = NewFramesMap
    /\ framesSize = 0
    /\ path = "none"
    /\ bufKind = "none" /\ buf = <<>>
    /\ tempExists = FALSE
    /\ err = "nil"
    /\ preFile = <<>> /\ preHeader = NoHeader
    /\ emptyAtCall = FALSE /\ staged = FALSE /\ tempCreated = FALSE
    /\ failedAt = "none" /\ anyFailed = FALSE
    /\ nSaves = 0 /\ nOps = 0

NoOp == [op |-> "none", name |-> <<>>, value |-> <<>>]

FileInit ==
    /\ file \in InitialFiles
    /\ Padding \in Paddings
    /\ InMemoryThreshold \in Thresholds(file)
    /\ Closed

CodecIdle ==
    /\ sx = 0 /\ sb = <<>> /\ sy = 0 /\ spc = "off"
    /\ lastOp = NoOp /\ preFrames = NewFramesMap

(***************************************************************************)
(* Open: Parse, then NewFile.  Any error but notATagHeader fails the Open. *)
(***************************************************************************)
Open ==
    /\ pc = "closed"
    /\ LET p == Parse(file) IN
       /\ openErr' = p.err
       /\ tagNil' = p.nilTag
       /\ tagFrames' = p.frames
       /\ openFile' = file
       /\ IF p.err \notin {"nil", "notATagHeader"}
          THEN /\ pc' = "openfailed"
               /\ UNCHANGED <<fileSize, audioOff, audioN, Header, Frames>>
          ELSE /\ pc' = "idle"
               /\ Header' = p.header
               /\ Frames' = p.frames
               /\ fileSize' = Len(file)
               /\ audioOff' = tagHeaderSize + p.header.Size
               /\ audioN' = Len(file) - p.header.Size
    /\ pos' = Parse(file).read
    /\ UNCHANGED <<file, Padding, InMemoryThreshold, framesSize, path, bufKind, buf,
                   tempExists, err, preFile, preHeader, emptyAtCall, staged,
                   tempCreated, failedAt, anyFailed, nSaves, nOps, codecVars>>

(***************************************************************************)
(* Frame-store mutations between saves.                                    *)
(***************************************************************************)
Ready == pc \in {"idle", "done"}

saveVars == <<framesSize, path, bufKind, buf, tempExists, err, preFile, preHeader,
              emptyAtCall, staged, tempCreated, failedAt, anyFailed, nSaves>>
openVars == <<openErr, tagNil, tagFrames, openFile, fileSize, audioOff, audioN, Padding, InMemoryThreshold>>

Mutate(fm) ==
    /\ Ready /\ nOps < MaxOps
    /\ Frames' = fm
    /\ nOps' = nOps + 1
    /\ UNCHANGED <<file, pos, pc, Header, saveVars, openVars, codecVars>>

DoSetTextFrame == \E v \in Texts : Mutate(SetTextFrame(Frames, TIT2, v))
DoSetComments == \E c \in Comments : Mutate(SetComments(Frames, c))
DoClear == Mutate(Clear(Frames))

(***************************************************************************)
(* Save.  A write that fails writes nothing; a failing step returns the    *)
(* error "EIO".                                                            *)
(***************************************************************************)
\* chooseInplace with the tag required to be strictly larger than the frames
chooseInplaceStrict(h, fm, fs) ==
    HasTag(h) /\ h.Size > fs /\ Cardinality(DOMAIN fm) > 0

\* the condition under which Save calls saveInplace
chooseInplace(h, fm, fs) ==
    HasTag(h) /\ h.Size >= fs /\ Cardinality(DOMAIN fm) > 0

\* useMemory with a file of exactly the threshold size kept in memory
useMemoryInclusive(oldSize, threshold) == oldSize <= threshold

\* saveNew works in memory when this holds, in a temporary file otherwise
useMemory(oldSize, threshold) == oldSize < threshold

\* deferRemove with the file removed only after a successful copy back
removeOnSuccessOnly(exists, e) == exists /\ e # "nil"

\* defer os.Remove(newFile.Name()): whether the temporary file still exists
\* once saveNew has returned the error e
deferRemove(exists, e) == FALSE

\* the numbers of the frames of fs whose encoding writes something, so that
\* a write can fail there
WritingFrames(fs) == {i \in 1..Len(fs) : WriteTo(fs[i]) # <<>>}

fixedVars == <<openVars, nOps, codecVars>>
retVars == <<err, tempExists, failedAt, anyFailed>>

\* the history of failures, when the step at pc returns e
Returned(e) ==
    /\ failedAt' = IF e = "nil" THEN "none" ELSE pc
    /\ anyFailed' = (anyFailed \/ e # "nil")

\* Save returns e from saveInplace
ReturnInplace(e) ==
    /\ pc' = "done"
    /\ err' = e
    /\ Returned(e)
    /\ UNCHANGED tempExists

\* Save returns e from saveNew, after the temporary file has been created
\* when there is one
ReturnNew(e) ==
    /\ pc' = "done"
    /\ err' = e
    /\ Returned(e)
    /\ tempExists' = IF bufKind = "tempfile" THEN deferRemove(tempExists, e)
                     ELSE tempExists

SaveBegin ==
        /\ Ready /\ nSaves < MaxSaves
        /\ LET fm == SetTextFrame(Frames, TDTG, Now(nSaves))
               fs == FramesMapSize(fm)
           IN  /\ Frames' = fm
               /\ framesSize' = fs
               /\ IF chooseInplace(Header, fm, fs)
                  THEN path' = "InPlace" /\ pc' = "ip_seek"
                  ELSE path' = "Rebuild" /\ pc' = "nw_buf"
        /\ preFile' = file
        /\ preHeader' = Header
        /\ emptyAtCall' = (DOMAIN Frames = {})
        /\ staged' = FALSE
        /\ tempCreated' = FALSE
        /\ err' = "running"
        /\ failedAt' = "none"
        /\ bufKind' = "none"
        /\ buf' = <<>>
        /\ nSaves' = nSaves + 1
        /\ UNCHANGED <<file, pos, Header, tempExists, anyFailed, fixedVars>>

stepVars == <<framesSize, path, preFile, preHeader, emptyAtCall, nSaves, fixedVars>>

(* saveInplace *)
IpSeek ==
    /\ pc = "ip_seek"
    /\ \/ pos' = 0 /\ pc' = "ip_header" /\ UNCHANGED retVars
       \/ ReturnInplace("EIO") /\ UNCHANGED pos
    /\ UNCHANGED <<file, Header, Frames, bufKind, buf, staged, tempCreated, stepVars>>

IpHeader ==
    /\ pc = "ip_header"
    /\ \/ /\ file' = WriteAt(file, pos, generateHeader(Header.Size))
          /\ pos' = pos + tagHeaderSize
          /\ pc' = "ip_frames"
          /\ UNCHANGED retVars
       \/ ReturnInplace("EIO") /\ UNCHANGED <<file, pos>>
    /\ UNCHANGED <<Header, Frames, bufKind, buf, staged, tempCreated, stepVars>>

IpFrames ==
    /\ pc = "ip_frames"
    /\ \E order \in Orders(DOMAIN Frames) :
         LET fs == FramesIn(Frames, order) IN
         \E failAt \in {0} \cup WritingFrames(fs) :
            LET data == EncodeFrames(fs, failAt) IN
            /\ file' = WriteAt(file, pos, data)
            /\ pos' = pos + Len(data)
            /\ IF failAt = 0
               THEN pc' = "ip_fill" /\ UNCHANGED retVars
               ELSE ReturnInplace("EIO")
    /\ UNCHANGED <<Header, Frames, bufKind, buf, staged, tempCreated, stepVars>>

IpFill ==
    /\ pc = "ip_fill"
    /\ Header' = [Header EXCEPT !.Version = 1024]
    /\ \/ /\ file' = WriteAt(file, pos, Zeros(Header.Size - framesSize))
          /\ pos' = pos + Max(0, Header.Size - framesSize)
          /\ ReturnInplace("nil")
       \/ ReturnInplace("EIO") /\ UNCHANGED <<file, pos>>
    /\ UNCHANGED <<Frames, bufKind, buf, staged, tempCreated, stepVars>>

(* saveNew *)
NwBuf ==
    /\ pc = "nw_buf"
    /\ IF useMemory(fileSize, InMemoryThreshold)
       THEN /\ bufKind' = "memory"
            /\ pc' = "nw_header"
            /\ UNCHANGED <<retVars, tempCreated>>
       ELSE \/ /\ bufKind' = "tempfile"
               /\ tempExists' = TRUE
               /\ tempCreated' = TRUE
               /\ pc' = "nw_header"
               /\ UNCHANGED <<err, failedAt, anyFailed>>
            \/ /\ pc' = "done" /\ err' = "EIO"
               /\ Returned("EIO")
               /\ UNCHANGED <<bufKind, tempExists, tempCreated>>
    /\ UNCHANGED <<file, pos, Header, Frames, buf, staged, stepVars>>

\* SaveToReturns with the error of SaveTo left unchecked
SaveToReturnsUnchecked(e) == pc' = "nw_truncate" /\ UNCHANGED retVars

\* SaveTo has returned e to saveNew
SaveToReturns(e) ==
    IF e # "nil" THEN ReturnNew(e)
    ELSE pc' = "nw_truncate" /\ UNCHANGED retVars

\* Tag.Encode: the TDTG frame is set again, then the header is written
NwHeader ==
    /\ pc = "nw_header"
    /\ LET fm == SetTextFrame(Frames, TDTG, Now(nSaves)) IN
         /\ Frames' = fm
         /\ \/ /\ buf' = buf \o generateHeader(FramesMapSize(fm) + Padding)
               /\ pc' = "nw_frames"
               /\ UNCHANGED retVars
            \/ /\ bufKind = "tempfile"
               /\ SaveToReturns("EIO")
               /\ UNCHANGED buf
    /\ UNCHANGED <<file, pos, Header, bufKind, staged, tempCreated, stepVars>>

NwFrames ==
    /\ pc = "nw_frames"
    /\ \E order \in Orders(DOMAIN Frames) :
         LET fs == FramesIn(Frames, order) IN
         \E failAt \in {0} \cup (IF bufKind = "tempfile" THEN WritingFrames(fs) ELSE {}) :
            /\ buf' = buf \o EncodeFrames(fs, failAt)
            /\ IF failAt = 0
               THEN pc' = "nw_padding" /\ UNCHANGED retVars
               ELSE SaveToReturns("EIO")
    /\ UNCHANGED <<file, pos, Header, Frames, bufKind, staged, tempCreated, stepVars>>

NwPadding ==
    /\ pc = "nw_padding"
    /\ \/ /\ buf' = buf \o Zeros(Padding)
          /\ pc' = "nw_audio"
          /\ UNCHANGED retVars
       \/ /\ bufKind = "tempfile"
          /\ SaveToReturns("EIO")
          /\ UNCHANGED buf
    /\ UNCHANGED <<file, pos, Header, Frames, bufKind, staged, tempCreated, stepVars>>

\* the rest of SaveTo: audioReader.Seek(0, 0), then io.Copy(w, f.audioReader);
\* the read of the live file can fail, and so can the write to a file
NwAudio ==
    /\ pc = "nw_audio"
    /\ \/ /\ buf' = buf \o ReadSection(file, audioOff, audioN)
          /\ staged' = TRUE
          /\ SaveToReturns("nil")
       \/ /\ SaveToReturns("EIO")
          /\ UNCHANGED <<buf, staged>>
    /\ UNCHANGED <<file, pos, Header, Frames, bufKind, tempCreated, stepVars>>

\* truncate(f.f): Truncate(0), then Seek(0, 0)
NwTruncate ==
    /\ pc = "nw_truncate"
    /\ \/ /\ file' = <<>> /\ pos' = 0
          /\ pc' = IF bufKind = "tempfile" THEN "nw_seekbuf" ELSE "nw_copy"
          /\ UNCHANGED retVars
       \/ ReturnNew("EIO") /\ UNCHANGED <<file, pos>>
       \/ ReturnNew("EIO") /\ file' = <<>> /\ UNCHANGED pos
    /\ UNCHANGED <<Header, Frames, bufKind, buf, staged, tempCreated, stepVars>>

\* newFile.Seek(0, 0), when buf is the temporary file
NwSeekBuf ==
    /\ pc = "nw_seekbuf"
    /\ \/ pc' = "nw_copy" /\ UNCHANGED retVars
       \/ ReturnNew("EIO")
    /\ UNCHANGED <<file, pos, Header, Frames, bufKind, buf, staged, tempCreated, stepVars>>

\* io.Copy(f.f, buf), then the header fields are updated; a failing copy
\* leaves a prefix of the image in the file
NwCopy ==
    /\ pc = "nw_copy"
    /\ \/ /\ file' = WriteAt(file, pos, buf)
          /\ pos' = pos + Len(buf)
          /\ Header' = [Header EXCEPT !.Size = framesSize + Padding, !.Version = 1024]
          /\ ReturnNew("nil")
       \/ \E k \in {0, Len(buf) \div 2} :
             /\ file' = WriteAt(file, pos, Take(buf, k))
             /\ pos' = pos + k
             /\ UNCHANGED Header
             /\ ReturnNew("EIO")
    /\ UNCHANGED <<Frames, bufKind, buf, staged, tempCreated, stepVars>>

Next ==
    \/ Open
    \/ DoSetTextFrame
    \/ DoSetComments
    \/ DoClear
    \/ SaveBegin
    \/ IpSeek
    \/ IpHeader
    \/ IpFrames
    \/ IpFill
    \/ NwBuf
    \/ NwHeader
    \/ NwFrames
    \/ NwPadding
    \/ NwAudio
    \/ NwTruncate
    \/ NwSeekBuf
    \/ NwCopy

Init == FileInit /\ CodecIdle

Spec == Init /\ [][Next]_vars

(***************************************************************************)
(* One in-place Save of a tag of 128 KiB, the smallest size whose          *)
(* synchsafe form needs the fourth 7-bit group.  The file is cut short     *)
(* after its first frame: Open takes the size from the header and does not *)
(* compare it with the length of the file, and Save fills the tag up to    *)
(* the declared size.                                                      *)
(***************************************************************************)
LargeSize == 131072

\* the header 49 44 33 04 00 00 00 08 00 00 and the frame TIT2 "A"
LargeFiles ==
    { <<73, 68, 51, 4, 0, 0, 0, 8, 0, 0>> \o FrameTIT2A }

LargeInit ==
    /\ file \in LargeFiles
    /\ Padding \in Paddings
    /\ InMemoryThreshold \in Thresholds(file)
    /\ Closed
    /\ CodecIdle

\* Save is called once
SaveOnce == nSaves = 0 /\ SaveBegin

LargeNext ==
    \/ Open
    \/ DoSetTextFrame
    \/ DoSetComments
    \/ DoClear
    \/ SaveOnce
    \/ IpSeek
    \/ IpHeader
    \/ IpFrames
    \/ IpFill

SpecLargeTag == LargeInit /\ [][LargeNext]_vars

(***************************************************************************)
(* The synchsafe round trip as its own specification: an input is drawn,   *)
(* encoded as generateHeader and FrameHeader.serialize encode a size, and  *)
(* decoded as readHeader and readFrame decode it.                          *)
(***************************************************************************)
MaxBits == 28

SynchsafeInputs ==
    {0} \cup {Pow2(j) : j \in 0..(MaxBits - 1)}
        \cup {Pow2(j) - 1 : j \in 1..MaxBits}
        \cup {Pow2(j) + 1 : j \in 1..(MaxBits - 1)}
        \cup {Pow2(j) + Pow2(j - 1) : j \in 1..(MaxBits - 1)}

\* no file is open
NoFile ==
    /\ file = <<>> /\ pos = 0 /\ pc = "off" /\ openErr = "nil"
    /\ tagNil = FALSE /\ tagFrames = NewFramesMap /\ openFile = <<>>
    /\ fileSize = 0 /\ audioOff = 0 /\ audioN = 0
    /\ Header = NoHeader
    /\ Padding = 0 /\ InMemoryThreshold = 0
    /\ framesSize = 0 /\ path = "none" /\ bufKind = "none" /\ buf = <<>>
    /\ tempExists = FALSE /\ err = "nil"
    /\ preFile = <<>> /\ preHeader = NoHeader
    /\ emptyAtCall = FALSE /\ staged = FALSE /\ tempCreated = FALSE
    /\ failedAt = "none" /\ anyFailed = FALSE
    /\ nSaves = 0

FileOff == NoFile /\ Frames = NewFramesMap /\ nOps = 0

SyncInit ==
    /\ FileOff
    /\ sx \in SynchsafeInputs
    /\ sb = <<>> /\ sy = 0 /\ spc = "in"
    /\ lastOp = NoOp /\ preFrames = NewFramesMap

SyncEncode ==
    /\ spc = "in"
    /\ sb' = intToBytes(synchsafeInt(sx))
    /\ spc' = "encoded"
    /\ UNCHANGED <<sx, sy, lastOp, preFrames, fileVars>>

SyncDecode ==
    /\ spc = "encoded"
    /\ sy' = desynchsafeInt(sb)
    /\ spc' = "decoded"
    /\ UNCHANGED <<sx, sb, lastOp, preFrames, fileVars>>

SyncNext == SyncEncode \/ SyncDecode

SpecSynchsafe == SyncInit /\ [][SyncNext]_vars

(***************************************************************************)
(* The frame store as its own specification: a store is taken as Parse or  *)
(* NewTag leaves it, the setters change it, and FramesMap.Encode is called *)
(* twice on the result.                                                    *)
(***************************************************************************)
\* how many setter calls one behaviour makes
MaxSets == 2

NameTXXXa == TXXX \o <<58, 97>>
NameTXXXb == TXXX \o <<58, 98>>
TextNames == {TIT2, NameTXXXa, NameTXXXb}
StoreValues == {<<86>>, <<87, 88>>}

\* the stores to start from: an empty tag, and a parsed tag whose TIT2
\* bucket Parse has filled with two frames
ParsedStores ==
    { NewFramesMap,
      Parse(TaggedFile(24, FrameTIT2A \o FrameTIT2B, <<>>)).frames }

FramesInit ==
    /\ NoFile
    /\ Frames \in ParsedStores /\ nOps = 0
    /\ sx = 0 /\ sb = <<>> /\ sy = <<>> /\ spc = "store"
    /\ lastOp = NoOp /\ preFrames = NewFramesMap

\* one setter call that leaves the store fm
StoreOp(op, name, value, fm) ==
    /\ spc = "store" /\ nOps < MaxSets
    /\ Frames' = fm
    /\ preFrames' = Frames
    /\ lastOp' = [op |-> op, name |-> name, value |-> value]
    /\ nOps' = nOps + 1
    /\ UNCHANGED <<file, pos, pc, Header, saveVars, openVars, sx, sb, sy, spc>>

FsSetTextFrame ==
    \E name \in TextNames, v \in StoreValues :
        StoreOp("SetTextFrame", name, v, SetTextFrame(Frames, name, v))

FsSetComments ==
    \E c \in Comments : StoreOp("SetComments", COMM, c, SetComments(Frames, c))

\* FramesMap.size(), then FramesMap.Encode into a buffer
FsEncode ==
    /\ spc = "store"
    /\ \E order \in Orders(DOMAIN Frames) :
          sb' = EncodeFrames(FramesIn(Frames, order), 0)
    /\ sx' = FramesMapSize(Frames)
    /\ spc' = "encoded"
    /\ UNCHANGED <<fileVars, sy, lastOp, preFrames>>

\* a second FramesMap.Encode on the same store
FsEncodeAgain ==
    /\ spc = "encoded"
    /\ \E order \in Orders(DOMAIN Frames) :
          sy' = EncodeFrames(FramesIn(Frames, order), 0)
    /\ spc' = "encoded twice"
    /\ UNCHANGED <<fileVars, sx, sb, lastOp, preFrames>>

FramesNext == FsSetTextFrame \/ FsSetComments \/ FsEncode \/ FsEncodeAgain

SpecFrames == FramesInit /\ [][FramesNext]_vars

(***************************************************************************)
(* The ISO-8859-1 round trip as its own specification: a string of code    *)
(* points up to U+00FF is drawn, encoded by utf8ToISO88591 and decoded by  *)
(* iso88591ToUTF8.                                                         *)
(***************************************************************************)
\* how many code points a string has at most
MaxRunes == 2

\* code points at the ends of the ranges the two functions tell apart
LatinPoints == {0, 65, 127, 128, 129, 191, 192, 255}

\* the Go strings (UTF-8 byte strings) of at most n of these code points
RECURSIVE LatinStrings(_)
LatinStrings(n) ==
    IF n = 0 THEN {<<>>}
    ELSE LatinStrings(n - 1)
            \cup {EncodeRune(r) \o t : r \in LatinPoints, t \in LatinStrings(n - 1)}

LatinInit ==
    /\ FileOff
    /\ sx \in LatinStrings(MaxRunes)
    /\ sb = <<>> /\ sy = <<>> /\ spc = "in"
    /\ lastOp = NoOp /\ preFrames = NewFramesMap

LatinEncode ==
    /\ spc = "in"
    /\ sb' = utf8ToISO88591(sx)
    /\ spc' = "encoded"
    /\ UNCHANGED <<sx, sy, lastOp, preFrames, fileVars>>

LatinDecode ==
    /\ spc = "encoded" /\ sb # "panic"
    /\ sy' = iso88591ToUTF8(sb)
    /\ spc' = "decoded"
    /\ UNCHANGED <<sx, sb, lastOp, preFrames, fileVars>>

LatinNext == LatinEncode \/ LatinDecode

SpecLatin1 == LatinInit /\ [][LatinNext]_vars

(***************************************************************************)
(* splitNullN as its own specification: a UTF-16 field A, the terminator   *)
(* 00 00 and a field B are joined and split in two.                        *)
(***************************************************************************)
\* how many UTF-16 code units a field has at most
MaxUnits == 2

\* code units with a zero byte in either half, and with none
CodeUnits == {<<65, 0>>, <<0, 66>>, <<1, 2>>}

\* the byte strings of at most n of these code units
RECURSIVE Fields(_)
Fields(n) ==
    IF n = 0 THEN {<<>>}
    ELSE Fields(n - 1) \cup {u \o t : u \in CodeUnits, t \in Fields(n - 1)}

SplitInit ==
    /\ FileOff
    /\ sx \in [A : Fields(MaxUnits), B : Fields(MaxUnits), encoding : {utf16bom, utf16be}]
    /\ sb = <<>> /\ sy = <<>> /\ spc = "in"
    /\ lastOp = NoOp /\ preFrames = NewFramesMap

\* splitNullN(A ++ 00 00 ++ B, encoding, 2)
SplitCall ==
    /\ spc = "in"
    /\ sb' = sx.A \o <<0, 0>> \o sx.B
    /\ sy' = splitNullN(sx.A \o <<0, 0>> \o sx.B, sx.encoding, 2)
    /\ spc' = "split"
    /\ UNCHANGED <<sx, lastOp, preFrames, fileVars>>

SplitNext == SplitCall

SpecSplit == SplitInit /\ [][SplitNext]_vars

(***************************************************************************)
(* desynchsafeInt as its own specification: four bytes are drawn and       *)
(* decoded.                                                                *)
(***************************************************************************)
\* bytes at the ends of the range, with and without bit 7
SizeBytes == {0, 1, 127, 128, 255}

DesyncInit ==
    /\ FileOff
    /\ sb \in [1..4 -> SizeBytes]
    /\ sx = 0 /\ sy = 0 /\ spc = "encoded"
    /\ lastOp = NoOp /\ preFrames = NewFramesMap

DesyncNext == SyncDecode

SpecDesynchsafe == DesyncInit /\ [][DesyncNext]_vars

(***************************************************************************)
(* Properties.                                                             *)
(***************************************************************************)
SaveReturned == pc = "done"
SaveSucceeded == pc = "done" /\ err = "nil"

\* the file Save was called on carries a tag whose header agrees with Tag.Header
PreFileTagged ==
    /\ readHeader(preFile).err = "nil"
    /\ readHeader(preFile).header.Size = preHeader.Size
    /\ Len(preFile) >= tagHeaderSize + preHeader.Size

\* C1: an in-place Save of a file carrying a tag of reserved size S, with
\* frames of total size F <= S, writes exactly 10 + S bytes from offset 0:
\* the file keeps its length and every byte from offset 10 + S on.
C1_InPlaceKeepsAudio ==
    (SaveSucceeded /\ path = "InPlace" /\ PreFileTagged /\ framesSize <= preHeader.Size)
        => /\ pos = tagHeaderSize + preHeader.Size
           /\ Len(file) = Len(preFile)
           /\ Drop(file, tagHeaderSize + preHeader.Size)
                 = Drop(preFile, tagHeaderSize + preHeader.Size)

\* C2: a successful Save of a file with no tag leaves a file of length
\* 10 + framesSize + Padding + originalFileSize whose last originalFileSize
\* bytes are the original file.
C2_UntaggedSaveLayout ==
    (SaveSucceeded /\ path = "Rebuild" /\ ~HasTag(preHeader)
        /\ openErr = "notATagHeader" /\ Len(preFile) = fileSize)
        => /\ Len(file) = tagHeaderSize + framesSize + Padding + fileSize
           /\ Drop(file, Len(file) - fileSize) = preFile

\* C3: on the Rebuild path the live file keeps its content until SaveTo has
\* written the whole image without error, and a Save that returns before that
\* returns an error.
C3_TruncateOnlyAfterImage ==
    (path = "Rebuild" /\ ~staged)
        => /\ file = preFile
           /\ (SaveReturned => err = "EIO")

\* a Save on the Rebuild path has failed while the image was being built in
\* the temporary file, with part of the image written
C3_Witness ==
    /\ SaveReturned /\ path = "Rebuild" /\ ~staged
    /\ failedAt = "nw_audio" /\ bufKind = "tempfile" /\ buf # <<>>
    /\ file = preFile /\ file # <<>>

\* C4: a Save that returns an error before the replacement content has been
\* fully staged leaves the file content as it was, on both paths.
C4_FailedSaveKeepsFile ==
    (SaveReturned /\ err # "nil" /\ ~staged) => file = preFile

\* C5: Save takes the InPlace path exactly when the file carries a tag, the
\* recorded reserved size is at least framesSize and the store holds a frame;
\* the tag the File records is the tag on disk while no Save has failed.
C5_InPlaceExactlyWhen ==
    (pc \in {"ip_seek", "nw_buf"})
        => /\ path = (IF pc = "ip_seek" THEN "InPlace" ELSE "Rebuild")
           /\ (path = "InPlace") <=>
                 (HasTag(Header) /\ Header.Size >= framesSize /\ DOMAIN Frames # {})
           /\ framesSize = FramesMapSize(Frames)
           /\ ~anyFailed =>
                 /\ HasTag(Header) <=> (readHeader(file).err = "nil")
                 /\ HasTag(Header) => readHeader(file).header.Size = Header.Size

\* Save has chosen InPlace for a tag whose reserved size equals framesSize
C5_Witness ==
    /\ pc = "ip_seek" /\ path = "InPlace"
    /\ Header.Size = framesSize /\ framesSize > 0

\* C6: a Save called with an empty frame store, on a file that carries a tag
\* with room to spare, takes the Rebuild path.
C6_EmptyStoreRebuilds ==
    (path # "none" /\ emptyAtCall /\ HasTag(preHeader) /\ PreFileTagged
        /\ preHeader.Size > framesSize)
        => path = "Rebuild"

\* C7: the Rebuild path buffers in memory exactly when the cached file size is
\* below InMemoryThreshold: at the threshold it uses a temporary file, one
\* byte below it the in-memory buffer.
C7_ThresholdExclusive ==
    /\ (pc \in {"nw_header", "nw_frames", "nw_padding", "nw_audio", "nw_truncate",
                "nw_seekbuf", "nw_copy"}) => (path = "Rebuild" /\ bufKind # "none")
    /\ (path = "Rebuild" /\ bufKind # "none")
        => /\ (bufKind = "memory") <=> (fileSize < InMemoryThreshold)
           /\ (fileSize = InMemoryThreshold) => (bufKind = "tempfile" /\ tempCreated)
           /\ (fileSize = InMemoryThreshold - 1) => (bufKind = "memory" /\ ~tempCreated)

\* a rebuild of a file of exactly InMemoryThreshold bytes is under way
C7_Witness ==
    /\ path = "Rebuild" /\ pc = "nw_frames"
    /\ fileSize = InMemoryThreshold /\ fileSize > 0
    /\ bufKind = "tempfile"

\* C8: when Save has returned, the temporary file it created is gone,
\* whatever the step it returned from.
C8_TempFileRemoved == Ready => ~tempExists

\* a Save that created a temporary file has failed in the copy back
C8_Witness ==
    /\ SaveReturned /\ tempCreated /\ failedAt = "nw_copy" /\ err = "EIO"
    /\ ~tempExists

\* C9: decoding the four bytes that encode x yields x, for 0 <= x < 2^28.
C9_SynchsafeRoundTrip ==
    (spc = "decoded" /\ sx >= 0 /\ sx < Pow2(MaxBits)) => sy = sx

\* C10: parsing the header of a buffer whose first three bytes are not
\* 49 44 33 yields notATagHeader, whatever the length of the buffer.
C10_NoMagicIsNotATagHeader ==
    ((pc = "openfailed" \/ (pc = "idle" /\ nSaves = 0))
        /\ Len(file) >= 3 /\ SubSeq(file, 1, 3) # id3byte)
        => openErr = "notATagHeader"

(***************************************************************************)
(* Properties of Parse.  Open has run Parse on the file, and no Save has   *)
(* touched the file yet.                                                   *)
(***************************************************************************)
Parsed == pc \in {"openfailed", "idle"} /\ nSaves = 0

\* the file starts with a tag header that readHeader accepts
HeaderAccepted ==
    /\ Len(file) >= tagHeaderSize
    /\ SubSeq(file, 1, 3) = id3byte
    /\ file[4] \in {3, 4}

\* the bytes the frame loop of Parse can read: header.Size + tagHeaderSize
\* bytes after the header, or what the file has
TagReader ==
    IF Len(file) < tagHeaderSize THEN <<>>
    ELSE Take(Drop(file, tagHeaderSize),
              desynchsafeInt(SubSeq(file, 7, 10)) + tagHeaderSize)

\* the offsets in r at which the frame loop calls readFrame
RECURSIVE frameStarts(_, _)
frameStarts(r, off) ==
    LET res == readFrame(r) IN
    IF res.err # "nil" THEN {off}
    ELSE {off} \cup frameStarts(res.rest, off + Len(r) - Len(res.rest))

\* a whole frame header stands at offset k of r
HeaderAt(r, k) == k + frameLength <= Len(r)
\* its identifier is not four zero bytes and has a byte outside 0-9, A-Z
MalformedIDAt(r, k) ==
    /\ HeaderAt(r, k)
    /\ SubSeq(r, k + 1, k + 4) # <<0, 0, 0, 0>>
    /\ \E i \in 1..4 : ~( (r[k + i] >= 48 /\ r[k + i] <= 57)
                         \/ (r[k + i] >= 65 /\ r[k + i] <= 90) )
\* its identifier is well formed and its flags have the compressed, encrypted
\* or grouped bit
FlaggedFrameAt(r, k) ==
    /\ HeaderAt(r, k)
    /\ \A i \in 1..4 : (r[k + i] >= 48 /\ r[k + i] <= 57)
                         \/ (r[k + i] >= 65 /\ r[k + i] <= 90)
    /\ BitAnd(r[k + 10], 224) > 0

\* C11: Parse of a tag whose header has the extended-header flag or the
\* unsynchronisation flag fails with ErrNoExtendedHeader or
\* ErrNoUnsynchronizedTag, reads nothing after the header (no readFrame call)
\* and leaves the frame map empty.
C11_FlaggedHeaderFails ==
    (Parsed /\ HeaderAccepted /\ BitAnd(file[6], 192) > 0)
        => /\ pc = "openfailed"
           /\ openErr = (IF BitAnd(file[6], 64) > 0 THEN "ErrNoExtendedHeader"
                         ELSE "ErrNoUnsynchronizedTag")
           /\ pos = tagHeaderSize
           /\ tagFrames = NewFramesMap

\* Parse has refused a tag with the extended-header flag that holds a frame
C11_Witness ==
    /\ Parsed /\ HeaderAccepted /\ file[6] = 64
    /\ openErr = "ErrNoExtendedHeader"
    /\ readFrame(TagReader).err = "nil"

\* C12: Parse returns a non-nil tag, and a tag without frames whenever it
\* returns an error.
C12_ParseReturnsTag ==
    (Parsed /\ openErr # "panic")
        => /\ ~tagNil
           /\ (openErr # "nil") => (tagFrames = NewFramesMap)

C14_FlaggedFrameIsError ==
    (Parsed /\ HeaderAccepted /\ BitAnd(file[6], 192) = 0)
        => \A k \in frameStarts(TagReader, 0) :
            FlaggedFrameAt(TagReader, k) => (openErr # "panic" /\ openErr # "nil")

\* the bucket holds Unsupported frames only
UnsupportedBucket(bucket) ==
    bucket # <<>> /\ \A i \in 1..Len(bucket) : bucket[i].kind = "Unsupported"

\* C15: after a successful Save, parsing the file yields every Unsupported
\* frame of the store again: same identifier, flags and payload.
C15_UnsupportedFrameSurvivesSave ==
    SaveSucceeded
        => \A id \in DOMAIN Frames :
              UnsupportedBucket(Frames[id])
              => /\ Parse(file).err = "nil"
                 /\ id \in DOMAIN Parse(file).frames
                 /\ Parse(file).frames[id] = Frames[id]

(***************************************************************************)
(* Properties of the frame store.                                          *)
(***************************************************************************)
\* every frame of the store
AllFrames(fm) == UNION {{fm[id][i] : i \in 1..Len(fm[id])} : id \in DOMAIN fm}

\* C16: size(frame) is the number of bytes encoding the frame writes, for
\* every frame the store holds, and FramesMap.size() is the number of bytes
\* FramesMap.Encode writes.
C16_SizeIsEncodedLength ==
    /\ \A f \in AllFrames(Frames) : size(f) = Len(WriteTo(f))
    /\ (spc \in {"encoded", "encoded twice"}) => (Len(sb) = sx)

\* the TXXX bucket of a store, empty when the store has none
UserTextFrames(fm) == IF TXXX \in DOMAIN fm THEN fm[TXXX] ELSE <<>>

\* C18: SetTextFrame("TXXX:d", v) replaces the TXXX entry with description d
\* and appends an entry when there is none; every other entry keeps its
\* place and content, so every other description reads as before and d
\* reads v.
C18_KeyedSetReplacesOnlyMatch ==
    LET d     == Drop(lastOp.name, 5)
        frame == UserTextInformationFrame(0, d, lastOp.value)
        pre   == UserTextFrames(preFrames)
        post  == UserTextFrames(Frames)
    IN  (lastOp.op = "SetTextFrame" /\ Len(lastOp.name) >= 6
            /\ SubSeq(lastOp.name, 1, 4) = TXXX)
        => /\ IF \E i \in 1..Len(pre) : pre[i].a = d
              THEN /\ Len(post) = Len(pre)
                   /\ \A i \in 1..Len(pre) :
                         post[i] = IF pre[i].a = d THEN frame ELSE pre[i]
              ELSE post = Append(pre, frame)
           /\ getUserTextFrame(Frames, d) = lastOp.value
           /\ \A i \in 1..Len(pre) :
                 pre[i].a # d
                 => getUserTextFrame(Frames, pre[i].a) = getUserTextFrame(preFrames, pre[i].a)

\* C19: after SetTextFrame(id, v) for a text identifier other than TXXX, the
\* bucket of id holds one frame, the text frame id with text v.
C19_SetTextFrameLeavesOneFrame ==
    (lastOp.op = "SetTextFrame" /\ Len(lastOp.name) = 4 /\ lastOp.name # TXXX)
        => /\ lastOp.name \in DOMAIN Frames
           /\ Frames[lastOp.name]
                 = <<TextInformationFrame(lastOp.name, 0, lastOp.value)>>

\* C20: two FramesMap.Encode calls on one unchanged store with two or more
\* buckets write the same bytes.
C20_EncodeOrderStable ==
    (spc = "encoded twice" /\ Cardinality(DOMAIN Frames) >= 2) => (sy = sb)

(***************************************************************************)
(* Properties of the text codec.                                           *)
(***************************************************************************)
\* C17: a string of code points U+0000..U+00FF, U+0080 among them, encoded to
\* ISO-8859-1 by utf8ToISO88591 and decoded by iso88591ToUTF8, is the string
\* again.
C17_Latin1RoundTrip == (spc = "decoded") => (sy = sx)

(***************************************************************************)
(* Properties of the header a Save leaves.                                 *)
(***************************************************************************)
\* C21: after a successful Save the recorded header size is the size field
\* just written to the file (framesSize + Padding after Rebuild, the reserved
\* size as it was after InPlace) and the recorded version is 4.0, so HasTag
\* is true.
C21_RecordedHeaderMatchesDisk ==
    SaveSucceeded
        => /\ Header.Version = 1024
           /\ HasTag(Header)
           /\ Header.Size = (IF path = "Rebuild" THEN framesSize + Padding
                             ELSE preHeader.Size)
           /\ readHeader(file).err = "nil"
           /\ readHeader(file).header.Size = Header.Size

(***************************************************************************)
(* Properties of the audio region.                                         *)
(***************************************************************************)
\* the audio bytes of the file Open parsed: what follows its tag
AudioAtOpen ==
    IF readHeader(openFile).err = "nil"
    THEN Drop(openFile, tagHeaderSize + readHeader(openFile).header.Size)
    ELSE openFile

\* every frame of the store is written in as many bytes as its size says
SizesExact == \A f \in AllFrames(Frames) : size(f) = Len(WriteTo(f))

\* C22: after every successful Save on an open File, whatever Saves came
\* before, the bytes that follow the tag in the file are the audio bytes the
\* file had when it was opened.  Stated for a file opened with a tag, Saves
\* that all succeeded and a store whose frame sizes are exact.
C22_AudioKeptAcrossSaves ==
    (SaveSucceeded /\ ~anyFailed /\ readHeader(openFile).err = "nil" /\ SizesExact)
        => Drop(file, tagHeaderSize + Header.Size) = AudioAtOpen

(***************************************************************************)
(* Properties of the bytes Parse reads.                                    *)
(***************************************************************************)
\* the size the header of the file declares, and the tag body of that size
DeclaredSize == desynchsafeInt(SubSeq(file, 7, 10))
DeclaredBody == SubSeq(file, tagHeaderSize + 1, tagHeaderSize + DeclaredSize)

\* C23: Parse reads at most 10 + header.Size bytes, and a tag whose frames
\* fill the declared size exactly parses to those frames without error,
\* whatever follows the tag.
C23_ParseStaysInsideTag ==
    (Parsed /\ HeaderAccepted /\ BitAnd(file[6], 192) = 0
        /\ Len(file) >= tagHeaderSize + DeclaredSize)
        => /\ pos <= tagHeaderSize + DeclaredSize
           /\ (/\ DeclaredSize \in frameStarts(DeclaredBody, 0)
               /\ parseFrames(DeclaredBody, NewFramesMap).err = "nil")
              => /\ openErr = "nil"
                 /\ tagFrames = parseFrames(DeclaredBody, NewFramesMap).frames

(***************************************************************************)
(* Properties of splitNullN and desynchsafeInt.                            *)
(***************************************************************************)
\* C24: for a UTF-16 encoding, splitNullN(A ++ 00 00 ++ B, encoding, 2), with
\* A of even length and without an aligned 00 00 pair, returns the two
\* segments A and B.
C24_SplitNullUTF16 ==
    (spc = "split" /\ sx.encoding \in {utf16bom, utf16be})
        => sy = <<sx.A, sx.B>>

\* C25: desynchsafeInt(b) is desynchsafeInt of b with every byte masked by
\* 0x7F, and is below 2^28.
C25_DesynchsafeIgnoresBit7 ==
    (spc = "decoded")
        => /\ sy = desynchsafeInt([i \in 1..4 |-> sb[i] % 128])
           /\ sy < Pow2(28)

=============================================================================
